---- MODULE Spec2Model ----
(***************************************************************************)
(* Camera-capability resolution engine of CameraPreview-ReactNative.       *)
(*                                                                         *)
(* src/App.tsx holds three successive variants of the App component.  The  *)
(* state machine below is the last one (App, src/App.tsx:1366-1787): its   *)
(* React state, its two effects and its handlers.  The helper functions of *)
(* the two earlier variants (src/App.tsx:70 and src/App.tsx:731) are       *)
(* modelled as operators where they differ.                                *)
(*                                                                         *)
(* React scheduling: the state updates of one handler or one effect are    *)
(* batched into one step; an effect runs after a commit in which one of    *)
(* its dependencies changed; pending effects are flushed before the next   *)
(* event is handled.  A device object is identified by the snapshot that   *)
(* delivered it and its place there (fields snap and idx): every discovery *)
(* event delivers fresh objects.                                           *)
(*                                                                         *)
(* Numbers: JavaScript doubles are modelled by exact rationals <<n, d>>,   *)
(* NaN by the value NaN.  Zoom factors are the integers the device         *)
(* reports; 0 stands for a missing (falsy) value.                          *)
(***************************************************************************)
EXTENDS Integers, Sequences, FiniteSets, TLC

VARIABLES
    hasPermission,                \* useCameraPermission().hasPermission
    devices,                      \* useCameraDevices(): the current snapshot
    snapCount,                    \* number of snapshots delivered so far
    detectedCamerasInfo,          \* useState, src/App.tsx:1372
    selectedDevice,               \* useState, src/App.tsx:1373
    showDeviceList,               \* useState, src/App.tsx:1374
    showResolutionSelection,      \* useState, src/App.tsx:1375
    currentCameraFormat,          \* useState, src/App.tsx:1377
    currentZoom,                  \* useState, src/App.tsx:1378
    selectedResolutionString,     \* useState, src/App.tsx:1380
    maxPhotoResolutionForDevice,  \* useState, src/App.tsx:1381
    alert,                        \* title of the last Alert.alert shown
    depsDiscovery,                \* dependencies of the discovery effect at its last run
    depsSelected,                 \* dependencies of the selectedDevice effect at its last run
    probe,                        \* input of a function under test
    result,                       \* what the function under test returned
    catalog,                      \* the object predefinedResolutionsByRatio in memory
    pendingTakePhoto,             \* the call of onPressTakePhoto waiting for takePhoto
    processPhotoTarget            \* targetResolution of the last call of processPhoto

vars == << hasPermission, devices, snapCount, detectedCamerasInfo, selectedDevice,
           showDeviceList, showResolutionSelection, currentCameraFormat, currentZoom,
           selectedResolutionString, maxPhotoResolutionForDevice, alert,
           depsDiscovery, depsSelected, probe, result,
           catalog, pendingTakePhoto, processPhotoTarget >>

machineVars == << hasPermission, devices, snapCount, detectedCamerasInfo, selectedDevice,
                  showDeviceList, showResolutionSelection, currentCameraFormat,
                  currentZoom, selectedResolutionString, maxPhotoResolutionForDevice,
                  alert, depsDiscovery, depsSelected,
                  catalog, pendingTakePhoto, processPhotoTarget >>

\* JavaScript null, undefined and NaN (values of their own, equal to nothing else).
Null == [null |-> TRUE]
Undefined == [undefined |-> TRUE]
NaN == << 0, 0 >>

\* Bounds of the model.
MaxDevices == 2
MaxSnapshots == 2
MaxFormats == 3

----------------------------------------------------------------------------
(* Arithmetic on rationals <<n, d>>, d > 0.                                 *)

Abs(x) == IF x < 0 THEN -x ELSE x

Max(a, b) == IF a >= b THEN a ELSE b

Min(a, b) == IF a <= b THEN a ELSE b

RECURSIVE Gcd(_, _)
Gcd(a, b) == IF b = 0 THEN a ELSE Gcd(b, a % b)

Rat(n, d) == LET g == Gcd(Abs(n), d) IN << n \div g, d \div g >>

\* a/b < c/d for a, c >= 0 and b, d > 0, by continued fractions (no products).
RECURSIVE FracLess(_, _, _, _)
FracLess(a, b, c, d) ==
    LET q1 == a \div b
        q2 == c \div d
        r1 == a % b
        r2 == c % d
    IN  IF q1 # q2 THEN q1 < q2
        ELSE IF r2 = 0 THEN FALSE
        ELSE IF r1 = 0 THEN TRUE
        ELSE FracLess(d, r2, b, r1)

\* x > y on rationals; a comparison with NaN is false, as in JavaScript.
RatGreater(x, y) ==
    IF x = NaN \/ y = NaN THEN FALSE
    ELSE IF y[1] < 0 THEN x[1] >= 0 \/ FracLess(-x[1], x[2], -y[1], y[2])
    ELSE IF x[1] < 0 THEN FALSE
    ELSE FracLess(y[1], y[2], x[1], x[2])

----------------------------------------------------------------------------
(* A resolution string "WxH" is the record [w |-> W, h |-> H]; any other     *)
(* string is [text |-> ...].                                                *)

\* the template literal `${w}x${h}`
ResolutionString(w, h) == [w |-> w, h |-> h]

Text(s) == [text |-> s]

\* res.split('x').map(Number)
parseResolutionString(res) == [width |-> res.w, height |-> res.h]

\* Array.prototype.sort of a list of resolution strings, by width then height
\* (insertion into an ascending list; stable).
\* the comparator with the operands exchanged: descending order
ResBeforeDescending(a, b) ==
    LET resA == parseResolutionString(a)
        resB == parseResolutionString(b)
    IN  IF resA.width # resB.width THEN resB.width < resA.width
        ELSE resB.height < resA.height

ResBefore(a, b) ==
    LET resA == parseResolutionString(a)
        resB == parseResolutionString(b)
    IN  IF resA.width # resB.width THEN resA.width < resB.width
        ELSE resA.height < resB.height

RECURSIVE InsertRes(_, _)
InsertRes(x, s) ==
    IF s = << >> THEN << x >>
    ELSE IF ResBefore(x, Head(s)) THEN << x >> \o s
    ELSE << Head(s) >> \o InsertRes(x, Tail(s))

RECURSIVE SortRes(_)
SortRes(s) ==
    IF s = << >> THEN << >>
    ELSE InsertRes(s[Len(s)], SortRes(SubSeq(s, 1, Len(s) - 1)))

R(w, h) == ResolutionString(w, h)

predefinedResolutionsByRatio ==
    [ key \in { "Square (1:1)", "4x3 Landscape (4:3)", "3x4 Portrait (3:4)",
                "16x9 Landscape (16:9)", "9x16 Portrait (9:16)" } |->
      CASE key = "Square (1:1)" ->
             SortRes(<< R(720, 720), R(960, 960), R(1080, 1080), R(1200, 1200),
                        R(1280, 1280), R(1440, 1440), R(1600, 1600), R(1920, 1920),
                        R(2048, 2048), R(2160, 2160), R(2560, 2560), R(3000, 3000),
                        R(3024, 3024) >>)
        [] key = "4x3 Landscape (4:3)" ->
             SortRes(<< R(960, 720), R(1280, 960), R(1440, 1080), R(1600, 1200),
                        R(2048, 1536), R(2448, 1836), R(2560, 1920), R(2880, 2160),
                        R(3024, 2268) >>)
        [] key = "3x4 Portrait (3:4)" ->
             SortRes(<< R(720, 960), R(960, 1280), R(1080, 1440), R(1200, 1600),
                        R(1536, 2048), R(1836, 2448), R(1920, 2560), R(2160, 2880),
                        R(2268, 3024), R(3000, 4000), R(3024, 4032) >>)
        [] key = "16x9 Landscape (16:9)" ->
             SortRes(<< R(1280, 720), R(1600, 900), R(1920, 1080), R(2160, 1215),
                        R(2560, 1440), R(3024, 1701) >>)
        [] key = "9x16 Portrait (9:16)" ->
             SortRes(<< R(720, 1280), R(900, 1600), R(1080, 1920), R(1215, 2160),
                        R(1440, 2560), R(1701, 3024), R(2160, 3840), R(2268, 4032) >>) ]

----------------------------------------------------------------------------
(* Devices and formats.  A format without photo dimensions has              *)
(* photoWidth = photoHeight = 0 (both falsy in JavaScript).                 *)

Format(vw, vh, pw, ph, fps, fov) ==
    [ videoWidth |-> vw, videoHeight |-> vh, photoWidth |-> pw, photoHeight |-> ph,
      maxFrameRate |-> fps, fieldOfView |-> fov ]

Device(id, name, position, physicalDevices, formats, minZoom, neutralZoom) ==
    [ id |-> id, name |-> name, position |-> position,
      physicalDevices |-> physicalDevices, formats |-> formats,
      minZoom |-> minZoom, neutralZoom |-> neutralZoom, snap |-> 0, idx |-> 0 ]

\* String.prototype.includes('TrueDepth') on the names and ids of the model.
IncludesTrueDepth(s) == s \in { "TrueDepth Camera", "TrueDepth:1" }

\* f.photoWidth && f.photoHeight
HasPhoto(f) == f.photoWidth # 0 /\ f.photoHeight # 0

\* The object identity of a device: the snapshot that delivered it and its place there.
Ref(d) == IF d \in { Null, Undefined } THEN d ELSE [snap |-> d.snap, idx |-> d.idx]

SeqToSet(s) == { s[i] : i \in 1..Len(s) }

RECURSIVE SelectSeq2(_, _)
SelectSeq2(s, keep) ==
    IF s = << >> THEN << >>
    ELSE IF Head(s) \in keep THEN << Head(s) >> \o SelectSeq2(Tail(s), keep)
    ELSE SelectSeq2(Tail(s), keep)

\* Array.prototype.filter(f => f.photoWidth && f.photoHeight)
FilterPhoto(formats) == SelectSeq2(formats, { f \in SeqToSet(formats) : HasPhoto(f) })

----------------------------------------------------------------------------
(* The sorts of the format lists (Array.prototype.sort is stable: an        *)
(* element is inserted after the elements it does not strictly precede).    *)

\* comparator of src/App.tsx:1424-1429: video area descending, then frame rate descending
VideoBefore(a, b) ==
    LET areaA == a.videoWidth * a.videoHeight
        areaB == b.videoWidth * b.videoHeight
    IN  IF areaA # areaB THEN areaA > areaB ELSE a.maxFrameRate > b.maxFrameRate

RECURSIVE InsertVideo(_, _)
InsertVideo(x, s) ==
    IF s = << >> THEN << x >>
    ELSE IF VideoBefore(x, Head(s)) THEN << x >> \o s
    ELSE << Head(s) >> \o InsertVideo(x, Tail(s))

RECURSIVE SortByVideo(_)
SortByVideo(s) ==
    IF s = << >> THEN << >>
    ELSE InsertVideo(s[Len(s)], SortByVideo(SubSeq(s, 1, Len(s) - 1)))

\* comparator of src/App.tsx:1495-1503: photo area, then video area, then frame rate
PhotoBefore(a, b) ==
    LET areaA == a.photoWidth * a.photoHeight
        areaB == b.photoWidth * b.photoHeight
        videoAreaA == a.videoWidth * a.videoHeight
        videoAreaB == b.videoWidth * b.videoHeight
    IN  IF areaA # areaB THEN areaA > areaB
        ELSE IF videoAreaA # videoAreaB THEN videoAreaA > videoAreaB
        ELSE a.maxFrameRate > b.maxFrameRate

RECURSIVE InsertPhoto(_, _)
InsertPhoto(x, s) ==
    IF s = << >> THEN << x >>
    ELSE IF PhotoBefore(x, Head(s)) THEN << x >> \o s
    ELSE << Head(s) >> \o InsertPhoto(x, Tail(s))

RECURSIVE SortByPhoto(_)
SortByPhoto(s) ==
    IF s = << >> THEN << >>
    ELSE InsertPhoto(s[Len(s)], SortByPhoto(SubSeq(s, 1, Len(s) - 1)))

\* comparator of src/App.tsx:1482: photo area descending
PhotoAreaBefore(a, b) == a.photoWidth * a.photoHeight > b.photoWidth * b.photoHeight

RECURSIVE InsertPhotoArea(_, _)
InsertPhotoArea(x, s) ==
    IF s = << >> THEN << x >>
    ELSE IF PhotoAreaBefore(x, Head(s)) THEN << x >> \o s
    ELSE << Head(s) >> \o InsertPhotoArea(x, Tail(s))

RECURSIVE SortByPhotoArea(_)
SortByPhotoArea(s) ==
    IF s = << >> THEN << >>
    ELSE InsertPhotoArea(s[Len(s)], SortByPhotoArea(SubSeq(s, 1, Len(s) - 1)))

\* xs[0] of a JavaScript array: undefined when the array is empty
First(s) == IF s = << >> THEN Undefined ELSE s[1]

----------------------------------------------------------------------------
(* FormatScorer: findBestFormatForResolution.                               *)

\* the score with a missing aspect ratio read as 0: (photoWidth / photoHeight) || 0
aspectRatioScoreOrZero(format, targetResolution) ==
    IF format.photoHeight = 0
    THEN Rat(targetResolution.height, targetResolution.height + targetResolution.width)
    ELSE LET den == targetResolution.height * format.photoHeight
             num == Abs(targetResolution.width * format.photoHeight
                        - format.photoWidth * targetResolution.height)
         IN  Rat(den, den + num)

\* the score with the aspect ratio of the format inverted: photoHeight / photoWidth
aspectRatioScoreInverted(format, targetResolution) ==
    IF format.photoWidth = 0
    THEN IF format.photoHeight = 0 THEN NaN ELSE << 0, 1 >>
    ELSE LET den == targetResolution.height * format.photoWidth
             num == Abs(targetResolution.width * format.photoWidth
                        - format.photoHeight * targetResolution.height)
         IN  Rat(den, den + num)

\* 1 / (1 + |targetAR - formatAR|); formatAR is NaN for 0/0 (no photo dimensions)
\* and Infinity for w/0, which gives the score 0
aspectRatioScore(format, targetResolution) ==
    IF format.photoHeight = 0
    THEN IF format.photoWidth = 0 THEN NaN ELSE << 0, 1 >>
    ELSE LET den == targetResolution.height * format.photoHeight
             num == Abs(targetResolution.width * format.photoHeight
                        - format.photoWidth * targetResolution.height)
         IN  Rat(den, den + num)

resolutionScore(format, targetResolution) ==
    LET resolutionDiff == Abs(format.photoWidth * format.photoHeight
                              - targetResolution.width * targetResolution.height)
    IN  IF format.photoWidth >= targetResolution.width
           /\ format.photoHeight >= targetResolution.height
        THEN Rat(100000, 100000 + resolutionDiff)
        ELSE << 0, 1 >>

\* the multiplier with the limits 65 and 95 excluded
fovScoreOpenInterval(device, format) ==
    IF "wide-angle-camera" \in device.physicalDevices
       /\ ( "ultra-wide-angle-camera" \in device.physicalDevices
            \/ "telephoto-camera" \in device.physicalDevices )
    THEN IF format.fieldOfView > 65 /\ format.fieldOfView < 95
         THEN << 3, 2 >>
         ELSE << 4, 5 >>
    ELSE << 1, 1 >>

fovScore(device, format) ==
    IF "wide-angle-camera" \in device.physicalDevices
       /\ ( "ultra-wide-angle-camera" \in device.physicalDevices
            \/ "telephoto-camera" \in device.physicalDevices )
    THEN IF format.fieldOfView >= 65 /\ format.fieldOfView <= 95
         THEN << 3, 2 >>
         ELSE << 4, 5 >>
    ELSE << 1, 1 >>

\* (aspectRatioScore * 2 + resolutionScore * 1.5) * fovScore
totalScore(device, format, targetResolution) ==
    LET a == aspectRatioScore(format, targetResolution)
        r == resolutionScore(format, targetResolution)
        f == fovScore(device, format)
    IN  IF a = NaN THEN NaN
        ELSE LET sum == Rat(4 * a[1] * r[2] + 3 * r[1] * a[2], 2 * a[2] * r[2])
             IN  Rat(sum[1] * f[1], sum[2] * f[2])

\* the loop with totalScore >= maxScore: of equal totals the last one wins
RECURSIVE ScoreLoopLastWins(_, _, _, _, _)
ScoreLoopLastWins(device, targetResolution, i, bestFormat, maxScore) ==
    IF i > Len(device.formats) THEN bestFormat
    ELSE LET format == device.formats[i]
             total == totalScore(device, format, targetResolution)
         IN  IF RatGreater(total, maxScore) \/ total = maxScore
             THEN ScoreLoopLastWins(device, targetResolution, i + 1, format, total)
             ELSE ScoreLoopLastWins(device, targetResolution, i + 1, bestFormat, maxScore)

\* The loop of src/App.tsx:1311-1335 from format i on, with the best so far.
RECURSIVE ScoreLoop(_, _, _, _, _)
ScoreLoop(device, targetResolution, i, bestFormat, maxScore) ==
    IF i > Len(device.formats) THEN bestFormat
    ELSE LET format == device.formats[i]
             total == totalScore(device, format, targetResolution)
         IN  IF RatGreater(total, maxScore)
             THEN ScoreLoop(device, targetResolution, i + 1, format, total)
             ELSE ScoreLoop(device, targetResolution, i + 1, bestFormat, maxScore)

findBestFormatForResolution(device, targetResolution, targetAspectRatioKey) ==
    IF device = Null THEN Undefined
    ELSE ScoreLoop(device, targetResolution, 1, Undefined, << -1, 1 >>)

----------------------------------------------------------------------------
(* CapabilityFilter: the resolutions of a catalog label that a device       *)
(* offers.  The first two variants match the video dimensions of a format   *)
(* exactly (the second one under a ceiling); the last variant bounds by the *)
(* largest photo resolution of the device.                                  *)

\* the catalog of the first two variants: no 3000x3000 and no 3000x4000
predefinedResolutionsByRatioFirst ==
    [ key \in DOMAIN predefinedResolutionsByRatio |->
        SelectSeq2(predefinedResolutionsByRatio[key],
                   SeqToSet(predefinedResolutionsByRatio[key])
                       \ { R(3000, 3000), R(3000, 4000) }) ]

\* availableFormats.some(f => f.videoWidth === width && f.videoHeight === height)
isSupported(availableFormats, resStr) ==
    LET res == parseResolutionString(resStr)
    IN  \E i \in 1..Len(availableFormats) :
          /\ availableFormats[i].videoWidth = res.width
          /\ availableFormats[i].videoHeight = res.height

\* the forEach of src/App.tsx:312-322 over the list resolutionsForRatio
supported(availableFormats, resolutionsForRatio) ==
    SelectSeq2(resolutionsForRatio,
               { resStr \in SeqToSet(resolutionsForRatio) :
                   isSupported(availableFormats, resStr) })

\* the match made on the photo dimensions of the formats
getSupportedResolutionsForRatioByPhoto(selectedDev, ratioKey) ==
    IF ~(selectedDev \notin { Null, Undefined })
       \/ ratioKey \notin DOMAIN predefinedResolutionsByRatioFirst
    THEN << >>
    ELSE LET list == predefinedResolutionsByRatioFirst[ratioKey]
         IN  SelectSeq2(list,
                 { resStr \in SeqToSet(list) :
                     \E i \in 1..Len(selectedDev.formats) :
                       /\ selectedDev.formats[i].photoWidth = resStr.w
                       /\ selectedDev.formats[i].photoHeight = resStr.h })

\* first variant, src/App.tsx:302-324
getSupportedResolutionsForRatio(selectedDev, ratioKey) ==
    IF ~(selectedDev \notin { Null, Undefined })
       \/ ratioKey \notin DOMAIN predefinedResolutionsByRatioFirst
    THEN << >>
    ELSE supported(selectedDev.formats, predefinedResolutionsByRatioFirst[ratioKey])

maxAllowedWidth == 2160

maxAllowedHeight == 2160

\* the forEach of src/App.tsx:898-912: entries over the limit are skipped
supportedUnderCeiling(availableFormats, resolutionsForRatio) ==
    SelectSeq2(resolutionsForRatio,
               { resStr \in SeqToSet(resolutionsForRatio) :
                   LET res == parseResolutionString(resStr)
                   IN  /\ ~(res.width > maxAllowedWidth \/ res.height > maxAllowedHeight)
                       /\ isSupported(availableFormats, resStr) })

\* the limit applied only to entries that exceed it on both axes
getSupportedResolutionsForRatioCeilingBothAxes(selectedDev, ratioKey) ==
    IF ~(selectedDev \notin { Null, Undefined })
       \/ ratioKey \notin DOMAIN predefinedResolutionsByRatioFirst
    THEN << >>
    ELSE LET list == predefinedResolutionsByRatioFirst[ratioKey]
         IN  SelectSeq2(list,
                 { resStr \in SeqToSet(list) :
                     /\ ~(resStr.w > maxAllowedWidth /\ resStr.h > maxAllowedHeight)
                     /\ isSupported(selectedDev.formats, resStr) })

\* second variant, src/App.tsx:885-915
getSupportedResolutionsForRatioCeiling(selectedDev, ratioKey) ==
    IF ~(selectedDev \notin { Null, Undefined })
       \/ ratioKey \notin DOMAIN predefinedResolutionsByRatioFirst
    THEN << >>
    ELSE supportedUnderCeiling(selectedDev.formats,
                               predefinedResolutionsByRatioFirst[ratioKey])

\* what the selectedDevice effect stores in maxPhotoResolutionForDevice
maxPhotoResolution(device) ==
    IF device \notin { Null, Undefined }
    THEN LET highestResFormat == First(SortByPhotoArea(FilterPhoto(device.formats)))
         IN  IF highestResFormat # Undefined
             THEN [ width |-> highestResFormat.photoWidth,
                    height |-> highestResFormat.photoHeight ]
             ELSE Null
    ELSE Null

\* the filter of src/App.tsx:1606-1611 over the list resolutionsForRatio
available(maxPhotoRes, resolutionsForRatio) ==
    LET maxDeviceDim == Max(maxPhotoRes.width, maxPhotoRes.height)
        minDeviceDim == Min(maxPhotoRes.width, maxPhotoRes.height)
    IN  SelectSeq2(resolutionsForRatio,
            { resStr \in SeqToSet(resolutionsForRatio) :
                LET res == parseResolutionString(resStr)
                    maxOptionDim == Max(res.width, res.height)
                    minOptionDim == Min(res.width, res.height)
                IN  maxOptionDim <= maxDeviceDim /\ minOptionDim <= minDeviceDim })

\* Array.prototype.reverse
RECURSIVE Reverse(_)
Reverse(s) == IF s = << >> THEN << >> ELSE Append(Reverse(Tail(s)), Head(s))

\* the filter with the largest resolutions listed first
getAvailableResolutionsForRatioLargestFirst(maxPhotoRes, ratioKey) ==
    IF maxPhotoRes = Null \/ ratioKey \notin DOMAIN predefinedResolutionsByRatio
    THEN << >>
    ELSE Reverse(available(maxPhotoRes, predefinedResolutionsByRatio[ratioKey]))

\* the filter comparing widths with widths and heights with heights
getAvailableResolutionsForRatioSameAxes(maxPhotoRes, ratioKey) ==
    IF maxPhotoRes = Null \/ ratioKey \notin DOMAIN predefinedResolutionsByRatio
    THEN << >>
    ELSE LET list == predefinedResolutionsByRatio[ratioKey]
         IN  SelectSeq2(list, { resStr \in SeqToSet(list) :
                                  /\ resStr.w <= maxPhotoRes.width
                                  /\ resStr.h <= maxPhotoRes.height })

\* last variant, src/App.tsx:1597-1614
getAvailableResolutionsForRatio(maxPhotoRes, ratioKey) ==
    IF maxPhotoRes = Null \/ ratioKey \notin DOMAIN predefinedResolutionsByRatio
    THEN << >>
    ELSE available(maxPhotoRes, predefinedResolutionsByRatio[ratioKey])

----------------------------------------------------------------------------
(* DeviceClassifier, ZoomPolicy, default device, de-duplication.            *)

\* the naming rules without the final 'Back Camera' branch
deviceNameNoBackDefault(device) ==
    IF device.position = "front" THEN
        IF "ultra-wide-angle-camera" \in device.physicalDevices
        THEN "Front Ultra Wide Camera"
        ELSE IF IncludesTrueDepth(device.name) \/ IncludesTrueDepth(device.id)
        THEN "Front TrueDepth Camera"
        ELSE "Front Camera"
    ELSE IF "ultra-wide-angle-camera" \in device.physicalDevices
            /\ "wide-angle-camera" \in device.physicalDevices
            /\ "telephoto-camera" \in device.physicalDevices
    THEN "Back Triple Camera"
    ELSE IF "ultra-wide-angle-camera" \in device.physicalDevices
            /\ "wide-angle-camera" \in device.physicalDevices
    THEN "Back Dual Wide Camera"
    ELSE IF "wide-angle-camera" \in device.physicalDevices
            /\ "telephoto-camera" \in device.physicalDevices
    THEN "Back Dual Camera"
    ELSE IF "telephoto-camera" \in device.physicalDevices
    THEN "Back Telephoto Camera"
    ELSE IF "ultra-wide-angle-camera" \in device.physicalDevices
    THEN "Back Ultra Wide Camera"
    ELSE IF device.name # "" THEN device.name ELSE device.id

\* the naming rules with the dual wide rule tested before the triple rule
deviceNameDualWideFirst(device) ==
    IF device.position = "front" THEN
        IF "ultra-wide-angle-camera" \in device.physicalDevices
        THEN "Front Ultra Wide Camera"
        ELSE IF IncludesTrueDepth(device.name) \/ IncludesTrueDepth(device.id)
        THEN "Front TrueDepth Camera"
        ELSE "Front Camera"
    ELSE IF device.position = "back" THEN
        IF "ultra-wide-angle-camera" \in device.physicalDevices
           /\ "wide-angle-camera" \in device.physicalDevices
        THEN "Back Dual Wide Camera"
        ELSE IF "ultra-wide-angle-camera" \in device.physicalDevices
                /\ "wide-angle-camera" \in device.physicalDevices
                /\ "telephoto-camera" \in device.physicalDevices
        THEN "Back Triple Camera"
        ELSE IF "wide-angle-camera" \in device.physicalDevices
                /\ "telephoto-camera" \in device.physicalDevices
        THEN "Back Dual Camera"
        ELSE IF "telephoto-camera" \in device.physicalDevices
        THEN "Back Telephoto Camera"
        ELSE IF "ultra-wide-angle-camera" \in device.physicalDevices
        THEN "Back Ultra Wide Camera"
        ELSE "Back Camera"
    ELSE IF device.name # "" THEN device.name ELSE device.id

\* the naming rules of the discovery effect
deviceName(device) ==
    IF device.position = "front" THEN
        IF "ultra-wide-angle-camera" \in device.physicalDevices
        THEN "Front Ultra Wide Camera"
        ELSE IF IncludesTrueDepth(device.name) \/ IncludesTrueDepth(device.id)
        THEN "Front TrueDepth Camera"
        ELSE "Front Camera"
    ELSE IF device.position = "back" THEN
        IF "ultra-wide-angle-camera" \in device.physicalDevices
           /\ "wide-angle-camera" \in device.physicalDevices
           /\ "telephoto-camera" \in device.physicalDevices
        THEN "Back Triple Camera"
        ELSE IF "ultra-wide-angle-camera" \in device.physicalDevices
                /\ "wide-angle-camera" \in device.physicalDevices
        THEN "Back Dual Wide Camera"
        ELSE IF "wide-angle-camera" \in device.physicalDevices
                /\ "telephoto-camera" \in device.physicalDevices
        THEN "Back Dual Camera"
        ELSE IF "telephoto-camera" \in device.physicalDevices
        THEN "Back Telephoto Camera"
        ELSE IF "ultra-wide-angle-camera" \in device.physicalDevices
        THEN "Back Ultra Wide Camera"
        ELSE "Back Camera"
    ELSE IF device.name # "" THEN device.name ELSE device.id

\* x || 1 on a zoom factor
OrOne(x) == IF x = 0 THEN 1 ELSE x

\* the zoom rule without the fallback to 1
defaultZoomNoFallback(device) == device.neutralZoom

\* the zoom rule of the last variant: both branches use neutralZoom
defaultZoom(device) ==
    IF "ultra-wide-angle-camera" \in device.physicalDevices
       /\ "wide-angle-camera" \in device.physicalDevices
       /\ device.position = "back"
    THEN OrOne(device.neutralZoom)
    ELSE OrOne(device.neutralZoom)

\* the zoom rule of the first variant: minZoom for the back dual wide camera
defaultZoomMinPolicy(device) ==
    IF "ultra-wide-angle-camera" \in device.physicalDevices
       /\ "wide-angle-camera" \in device.physicalDevices
       /\ device.position = "back"
    THEN OrOne(device.minZoom)
    ELSE OrOne(device.neutralZoom)

\* Array.prototype.find: the first element of s in the set keep, or undefined
RECURSIVE Find(_, _)
Find(s, keep) ==
    IF s = << >> THEN Undefined
    ELSE IF Head(s) \in keep THEN Head(s)
    ELSE Find(Tail(s), keep)

\* backCamera without the wide-angle test
backCameraAnyLens(devs) ==
    Find(devs, { d \in SeqToSet(devs) : d.position = "back" })

backCamera(devs) ==
    Find(devs, { d \in SeqToSet(devs) :
                   d.position = "back" /\ "wide-angle-camera" \in d.physicalDevices })

frontCamera(devs) ==
    Find(devs, { d \in SeqToSet(devs) :
                   d.position = "front" /\ "wide-angle-camera" \in d.physicalDevices })

\* backCamera || frontCamera || devices[0]
defaultDevice(devs) ==
    IF backCamera(devs) # Undefined THEN backCamera(devs)
    ELSE IF frontCamera(devs) # Undefined THEN frontCamera(devs)
    ELSE First(devs)

\* the entry the discovery effect pushes for one device (formats already sorted in place)
cameraInfo(device) ==
    LET highestVideoResFormatForDisplay == First(device.formats)
        highestPhotoResFormatForDisplay == First(SortByPhoto(FilterPhoto(device.formats)))
    IN  [ name |-> deviceName(device),
          device |-> device,
          displayResolution |->
              IF highestVideoResFormatForDisplay # Undefined
              THEN ResolutionString(highestVideoResFormatForDisplay.videoWidth,
                                    highestVideoResFormatForDisplay.videoHeight)
              ELSE Text("Unknown"),
          photoDisplayResolution |->
              IF highestPhotoResFormatForDisplay # Undefined
              THEN ResolutionString(highestPhotoResFormatForDisplay.photoWidth,
                                    highestPhotoResFormatForDisplay.photoHeight)
              ELSE Text("N/A") ]

\* the de-duplication loop keyed by the label instead of the device id
RECURSIVE uniqueCameraInfoByName(_, _)
uniqueCameraInfoByName(foundCameras, seenDeviceIds) ==
    IF foundCameras = << >> THEN << >>
    ELSE LET info == Head(foundCameras)
         IN  IF info.name \notin seenDeviceIds
             THEN << info >> \o uniqueCameraInfoByName(Tail(foundCameras),
                                                       seenDeviceIds \cup { info.name })
             ELSE uniqueCameraInfoByName(Tail(foundCameras), seenDeviceIds)

\* the seenDeviceIds loop: keep the first entry of every device id
RECURSIVE uniqueCameraInfo(_, _)
uniqueCameraInfo(foundCameras, seenDeviceIds) ==
    IF foundCameras = << >> THEN << >>
    ELSE LET info == Head(foundCameras)
         IN  IF info.device.id \notin seenDeviceIds
             THEN << info >> \o uniqueCameraInfo(Tail(foundCameras),
                                                 seenDeviceIds \cup { info.device.id })
             ELSE uniqueCameraInfo(Tail(foundCameras), seenDeviceIds)

\* device.formats.sort(...) of the discovery effect: sorts the array of the object itself
sortFormatsInPlace(device) == [ device EXCEPT !.formats = SortByVideo(device.formats) ]

----------------------------------------------------------------------------
(* The devices and inputs the model draws from.                             *)

WideTag == "wide-angle-camera"
UltraTag == "ultra-wide-angle-camera"
TeleTag == "telephoto-camera"

Photo12MP == Format(1920, 1080, 4032, 3024, 60, 70)
Photo4K == Format(3840, 2160, 3840, 2160, 30, 80)
Photo720 == Format(1280, 720, 1280, 720, 30, 110)
VideoOnly == Format(1280, 720, 0, 0, 30, 60)
Photo12MP4K == Format(3840, 2160, 4032, 3024, 30, 80)

\* The device records a snapshot is made of: a back dual wide camera, a record of
\* the same id with other content (telephoto, no photo format, no neutralZoom),
\* and a front camera.
DeviceModels ==
    { Device("dev:0", "Back Camera", "back", { WideTag, UltraTag },
             << Photo720, Photo12MP >>, 1, 2),
      Device("dev:0", "Back Camera", "back", { TeleTag },
             << VideoOnly >>, 1, 0),
      Device("TrueDepth:1", "Front Camera", "front", { WideTag },
             << Photo4K, Photo12MP >>, 1, 1) }

RECURSIVE SeqsUpTo(_, _)
SeqsUpTo(S, n) ==
    IF n = 0 THEN { << >> }
    ELSE LET shorter == SeqsUpTo(S, n - 1)
         IN  shorter \cup { Append(s, x) : s \in shorter, x \in S }

\* the snapshots: lists of up to MaxDevices distinct device records
Snapshots ==
    { s \in SeqsUpTo(DeviceModels, MaxDevices) :
        \A i, j \in 1..Len(s) : i # j => s[i] # s[j] }

\* the snapshot the discovery collaborator delivers: fresh objects
Delivered(snapshot, n) ==
    [ i \in 1..Len(snapshot) |-> [ snapshot[i] EXCEPT !.snap = n, !.idx = i ] ]

ResolutionInputs ==
    { ResolutionString(1920, 1080), ResolutionString(3024, 4032) }

RatioKeyInputs == { "16x9 Landscape (16:9)" }

Unmounted == [unmounted |-> TRUE]

----------------------------------------------------------------------------
(* The state machine.                                                       *)

\* [hasPermission, devices, selectedDevice, backCamera, frontCamera]
DiscoveryDeps ==
    [ hasPermission |-> hasPermission, devices |-> snapCount,
      selectedDevice |-> Ref(selectedDevice),
      backCamera |-> Ref(backCamera(devices)),
      frontCamera |-> Ref(frontCamera(devices)) ]

\* [selectedDevice]
SelectedDeps == [ selectedDevice |-> Ref(selectedDevice) ]

DiscoveryPending == depsDiscovery # DiscoveryDeps

SelectedPending == depsSelected # SelectedDeps

\* no effect is waiting to run: the next step is an event from outside
EffectsSettled == ~DiscoveryPending /\ ~SelectedPending

IdleMachine ==
    /\ devices = << >>
    /\ snapCount = 0
    /\ detectedCamerasInfo = << >>
    /\ selectedDevice = Null
    /\ showDeviceList = FALSE
    /\ showResolutionSelection = FALSE
    /\ currentCameraFormat = Undefined
    /\ currentZoom = 1
    /\ selectedResolutionString = Null
    /\ maxPhotoResolutionForDevice = Null
    /\ alert = "none"
    /\ depsDiscovery = Unmounted
    /\ depsSelected = Unmounted
    /\ catalog = predefinedResolutionsByRatio
    /\ pendingTakePhoto = Null
    /\ processPhotoTarget = Null

Init ==
    /\ hasPermission \in BOOLEAN
    /\ IdleMachine
    /\ probe = Null
    /\ result = Null

\* the permission collaborator reports that the permission was granted
PermissionGranted ==
    /\ EffectsSettled
    /\ ~hasPermission
    /\ hasPermission' = TRUE
    /\ UNCHANGED << devices, snapCount, detectedCamerasInfo, selectedDevice,
                    showDeviceList, showResolutionSelection, currentCameraFormat,
                    currentZoom, selectedResolutionString, maxPhotoResolutionForDevice, alert, depsDiscovery, depsSelected,
                    probe, result,
                    catalog, pendingTakePhoto, processPhotoTarget >>

\* the discovery collaborator delivers a snapshot (useCameraDevices changes)
DevicesChanged ==
    /\ EffectsSettled
    /\ snapCount < MaxSnapshots
    /\ \E snapshot \in Snapshots :
         devices' = Delivered(snapshot, snapCount + 1)
    /\ snapCount' = snapCount + 1
    /\ UNCHANGED << hasPermission, detectedCamerasInfo, selectedDevice,
                    showDeviceList, showResolutionSelection, currentCameraFormat,
                    currentZoom, selectedResolutionString, maxPhotoResolutionForDevice, alert, depsDiscovery, depsSelected,
                    probe, result,
                    catalog, pendingTakePhoto, processPhotoTarget >>

\* the discovery effect without the test devices.length > 0
DiscoveryEffectNoLengthGuard ==
    /\ DiscoveryPending
    /\ depsDiscovery' = DiscoveryDeps
    /\ IF hasPermission
       THEN LET sorted == [ i \in 1..Len(devices) |-> sortFormatsInPlace(devices[i]) ]
                foundCameras == [ i \in 1..Len(sorted) |-> cameraInfo(sorted[i]) ]
            IN  /\ devices' = sorted
                /\ detectedCamerasInfo' = uniqueCameraInfo(foundCameras, {})
                /\ IF selectedDevice \in { Null, Undefined }
                   THEN selectedDevice' = defaultDevice(sorted)
                   ELSE UNCHANGED selectedDevice
       ELSE UNCHANGED << devices, detectedCamerasInfo, selectedDevice >>
    /\ UNCHANGED << hasPermission, snapCount, showDeviceList, showResolutionSelection,
                    currentCameraFormat, currentZoom, selectedResolutionString,
                    maxPhotoResolutionForDevice, alert,
                    depsSelected, probe, result,
                    catalog, pendingTakePhoto, processPhotoTarget >>

\* the effect of src/App.tsx:1392-1476
DiscoveryEffect ==
    /\ DiscoveryPending
    /\ depsDiscovery' = DiscoveryDeps
    /\ IF hasPermission /\ Len(devices) > 0
       THEN LET sorted == [ i \in 1..Len(devices) |-> sortFormatsInPlace(devices[i]) ]
                foundCameras == [ i \in 1..Len(sorted) |-> cameraInfo(sorted[i]) ]
            IN  /\ devices' = sorted
                /\ detectedCamerasInfo' = uniqueCameraInfo(foundCameras, {})
                /\ IF selectedDevice \in { Null, Undefined }
                   THEN selectedDevice' = defaultDevice(sorted)
                   ELSE UNCHANGED selectedDevice
       ELSE UNCHANGED << devices, detectedCamerasInfo, selectedDevice >>
    /\ UNCHANGED << hasPermission, snapCount, showDeviceList, showResolutionSelection,
                    currentCameraFormat, currentZoom, selectedResolutionString,
                    maxPhotoResolutionForDevice, alert,
                    depsSelected, probe, result,
                    catalog, pendingTakePhoto, processPhotoTarget >>

\* the selectedDevice effect setting the zoom only when it found a format
SelectedDeviceEffectZoomWithFormat ==
    /\ ~DiscoveryPending
    /\ SelectedPending
    /\ depsSelected' = SelectedDeps
    /\ IF selectedDevice \notin { Null, Undefined }
       THEN LET highestPhotoFormat ==
                    First(SortByPhoto(FilterPhoto(selectedDevice.formats)))
            IN  /\ maxPhotoResolutionForDevice' = maxPhotoResolution(selectedDevice)
                /\ IF highestPhotoFormat # Undefined
                   THEN /\ currentCameraFormat' = highestPhotoFormat
                        /\ selectedResolutionString' =
                               ResolutionString(highestPhotoFormat.photoWidth,
                                                highestPhotoFormat.photoHeight)
                        /\ currentZoom' = defaultZoom(selectedDevice)
                   ELSE /\ currentCameraFormat' = Undefined
                        /\ UNCHANGED << selectedResolutionString, currentZoom >>
       ELSE /\ currentCameraFormat' = Undefined
            /\ currentZoom' = 1
            /\ maxPhotoResolutionForDevice' = Null
            /\ UNCHANGED selectedResolutionString
    /\ UNCHANGED << hasPermission, devices, snapCount, detectedCamerasInfo,
                    selectedDevice, showDeviceList, showResolutionSelection, alert, depsDiscovery, probe, result,
                    catalog, pendingTakePhoto, processPhotoTarget >>

\* the effect of src/App.tsx:1478-1525; it runs after the discovery effect
SelectedDeviceEffect ==
    /\ ~DiscoveryPending
    /\ SelectedPending
    /\ depsSelected' = SelectedDeps
    /\ IF selectedDevice \notin { Null, Undefined }
       THEN LET highestPhotoFormat ==
                    First(SortByPhoto(FilterPhoto(selectedDevice.formats)))
            IN  /\ maxPhotoResolutionForDevice' = maxPhotoResolution(selectedDevice)
                /\ IF highestPhotoFormat # Undefined
                   THEN /\ currentCameraFormat' = highestPhotoFormat
                        /\ selectedResolutionString' =
                               ResolutionString(highestPhotoFormat.photoWidth,
                                                highestPhotoFormat.photoHeight)
                   ELSE /\ currentCameraFormat' = Undefined
                        /\ UNCHANGED selectedResolutionString
                /\ currentZoom' = defaultZoom(selectedDevice)
       ELSE /\ currentCameraFormat' = Undefined
            /\ currentZoom' = 1
            /\ maxPhotoResolutionForDevice' = Null
            /\ UNCHANGED selectedResolutionString
    /\ UNCHANGED << hasPermission, devices, snapCount, detectedCamerasInfo,
                    selectedDevice, showDeviceList, showResolutionSelection, alert, depsDiscovery, probe, result,
                    catalog, pendingTakePhoto, processPhotoTarget >>

\* handleCameraSelect without the reset of the format
handleCameraSelectKeepsFormat(deviceToSelect) ==
    /\ EffectsSettled
    /\ IF deviceToSelect \notin { Null, Undefined }
       THEN /\ selectedDevice' = deviceToSelect
            /\ selectedResolutionString' = Null
            /\ alert' = "Select Camera"
            /\ showDeviceList' = FALSE
            /\ UNCHANGED currentCameraFormat
       ELSE /\ alert' = "Error: Selected camera not found."
            /\ UNCHANGED << selectedDevice, currentCameraFormat,
                            selectedResolutionString, showDeviceList >>
    /\ UNCHANGED << hasPermission, devices, snapCount, detectedCamerasInfo,
                    showResolutionSelection, currentZoom, maxPhotoResolutionForDevice,
                    depsDiscovery, depsSelected, probe, result,
                    catalog, pendingTakePhoto, processPhotoTarget >>

\* handleCameraSelect without the reset of the resolution string
handleCameraSelectKeepsResolution(deviceToSelect) ==
    /\ EffectsSettled
    /\ IF deviceToSelect \notin { Null, Undefined }
       THEN /\ selectedDevice' = deviceToSelect
            /\ currentCameraFormat' = Undefined
            /\ alert' = "Select Camera"
            /\ showDeviceList' = FALSE
            /\ UNCHANGED selectedResolutionString
       ELSE /\ alert' = "Error: Selected camera not found."
            /\ UNCHANGED << selectedDevice, currentCameraFormat,
                            selectedResolutionString, showDeviceList >>
    /\ UNCHANGED << hasPermission, devices, snapCount, detectedCamerasInfo,
                    showResolutionSelection, currentZoom, maxPhotoResolutionForDevice,
                    depsDiscovery, depsSelected, probe, result,
                    catalog, pendingTakePhoto, processPhotoTarget >>

\* src/App.tsx:1555-1565
handleCameraSelect(deviceToSelect) ==
    /\ EffectsSettled
    /\ IF deviceToSelect \notin { Null, Undefined }
       THEN /\ selectedDevice' = deviceToSelect
            /\ currentCameraFormat' = Undefined
            /\ selectedResolutionString' = Null
            /\ alert' = "Select Camera"
            /\ showDeviceList' = FALSE
       ELSE /\ alert' = "Error: Selected camera not found."
            /\ UNCHANGED << selectedDevice, currentCameraFormat,
                            selectedResolutionString, showDeviceList >>
    /\ UNCHANGED << hasPermission, devices, snapCount, detectedCamerasInfo,
                    showResolutionSelection, currentZoom, maxPhotoResolutionForDevice, depsDiscovery, depsSelected, probe, result,
                    catalog, pendingTakePhoto, processPhotoTarget >>

\* src/App.tsx:1567-1570
toggleDeviceList ==
    /\ EffectsSettled
    /\ showDeviceList' = ~showDeviceList
    /\ showResolutionSelection' = FALSE
    /\ UNCHANGED << hasPermission, devices, snapCount, detectedCamerasInfo,
                    selectedDevice, currentCameraFormat, currentZoom,
                    selectedResolutionString, maxPhotoResolutionForDevice, alert, depsDiscovery, depsSelected,
                    probe, result,
                    catalog, pendingTakePhoto, processPhotoTarget >>

\* toggleResolutionSelection leaving the device list as it is
toggleResolutionSelectionKeepsList ==
    /\ EffectsSettled
    /\ showResolutionSelection' = ~showResolutionSelection
    /\ UNCHANGED << hasPermission, devices, snapCount, detectedCamerasInfo,
                    selectedDevice, showDeviceList, currentCameraFormat, currentZoom,
                    selectedResolutionString, maxPhotoResolutionForDevice, alert,
                    depsDiscovery, depsSelected, probe, result,
                    catalog, pendingTakePhoto, processPhotoTarget >>

\* src/App.tsx:1572-1575
toggleResolutionSelection ==
    /\ EffectsSettled
    /\ showResolutionSelection' = ~showResolutionSelection
    /\ showDeviceList' = FALSE
    /\ UNCHANGED << hasPermission, devices, snapCount, detectedCamerasInfo,
                    selectedDevice, currentCameraFormat, currentZoom,
                    selectedResolutionString, maxPhotoResolutionForDevice, alert, depsDiscovery, depsSelected,
                    probe, result,
                    catalog, pendingTakePhoto, processPhotoTarget >>

\* Array.prototype.findLast
RECURSIVE FindLast(_, _)
FindLast(s, keep) ==
    IF s = << >> THEN Undefined
    ELSE IF s[Len(s)] \in keep THEN s[Len(s)]
    ELSE FindLast(SubSeq(s, 1, Len(s) - 1), keep)

\* the counterpart search taking the last match instead of the first
counterpartDeviceLast(device, devs) ==
    IF device.position = "back"
    THEN FindLast(devs, { d \in SeqToSet(devs) : d.position = "front" })
    ELSE IF device.position = "front"
    THEN FindLast(devs, { d \in SeqToSet(devs) : d.position = "back" })
    ELSE Null

\* devices.find(d => d.position === ...) of toggleCameraPosition
counterpartDevice(device, devs) ==
    IF device.position = "back"
    THEN Find(devs, { d \in SeqToSet(devs) : d.position = "front" })
    ELSE IF device.position = "front"
    THEN Find(devs, { d \in SeqToSet(devs) : d.position = "back" })
    ELSE Null

\* toggleCameraPosition selecting the result of the search without testing it
toggleCameraPositionUnchecked ==
    /\ EffectsSettled
    /\ IF selectedDevice \notin { Null, Undefined }
       THEN LET newDevice == counterpartDevice(selectedDevice, devices)
            IN  /\ selectedDevice' = newDevice
                /\ currentCameraFormat' = Undefined
                /\ selectedResolutionString' = Null
                /\ alert' = IF newDevice \notin { Null, Undefined }
                            THEN "Switch Camera"
                            ELSE "No Camera Found"
       ELSE UNCHANGED << selectedDevice, currentCameraFormat,
                         selectedResolutionString, alert >>
    /\ UNCHANGED << hasPermission, devices, snapCount, detectedCamerasInfo,
                    showDeviceList, showResolutionSelection, currentZoom,
                    maxPhotoResolutionForDevice,
                    depsDiscovery, depsSelected, probe, result,
                    catalog, pendingTakePhoto, processPhotoTarget >>

\* src/App.tsx:1577-1595
toggleCameraPosition ==
    /\ EffectsSettled
    /\ IF selectedDevice \notin { Null, Undefined }
       THEN LET newDevice == counterpartDevice(selectedDevice, devices)
            IN  IF newDevice \notin { Null, Undefined }
                THEN /\ selectedDevice' = newDevice
                     /\ currentCameraFormat' = Undefined
                     /\ selectedResolutionString' = Null
                     /\ alert' = "Switch Camera"
                ELSE /\ alert' = "No Camera Found"
                     /\ UNCHANGED << selectedDevice, currentCameraFormat,
                                     selectedResolutionString >>
       ELSE UNCHANGED << selectedDevice, currentCameraFormat,
                         selectedResolutionString, alert >>
    /\ UNCHANGED << hasPermission, devices, snapCount, detectedCamerasInfo,
                    showDeviceList, showResolutionSelection, currentZoom,
                    maxPhotoResolutionForDevice,
                    depsDiscovery, depsSelected, probe, result,
                    catalog, pendingTakePhoto, processPhotoTarget >>

\* handleResolutionSelect applying the scorer's answer without testing it
handleResolutionSelectUnchecked(resolutionString, ratioKey) ==
    /\ EffectsSettled
    /\ IF selectedDevice \notin { Null, Undefined }
       THEN LET targetResolution == parseResolutionString(resolutionString)
                bestFormat == findBestFormatForResolution(selectedDevice,
                                                          targetResolution, ratioKey)
            IN  /\ currentCameraFormat' = bestFormat
                /\ selectedResolutionString' = resolutionString
                /\ alert' = IF bestFormat # Undefined
                            THEN "Select Resolution"
                            ELSE "Error: Could not find a suitable format for the selected resolution."
                /\ showResolutionSelection' = FALSE
       ELSE UNCHANGED << currentCameraFormat, selectedResolutionString, alert,
                         showResolutionSelection >>
    /\ UNCHANGED << hasPermission, devices, snapCount, detectedCamerasInfo,
                    selectedDevice, showDeviceList, currentZoom,
                    maxPhotoResolutionForDevice, depsDiscovery, depsSelected,
                    probe, result,
                    catalog, pendingTakePhoto, processPhotoTarget >>

\* src/App.tsx:1618-1633
handleResolutionSelect(resolutionString, ratioKey) ==
    /\ EffectsSettled
    /\ IF selectedDevice \notin { Null, Undefined }
       THEN LET targetResolution == parseResolutionString(resolutionString)
                bestFormat == findBestFormatForResolution(selectedDevice,
                                                          targetResolution, ratioKey)
            IN  IF bestFormat # Undefined
                THEN /\ currentCameraFormat' = bestFormat
                     /\ selectedResolutionString' = resolutionString
                     /\ alert' = "Select Resolution"
                     /\ showResolutionSelection' = FALSE
                ELSE /\ alert' = "Error: Could not find a suitable format for the selected resolution."
                     /\ UNCHANGED << currentCameraFormat, selectedResolutionString,
                                     showResolutionSelection >>
       ELSE UNCHANGED << currentCameraFormat, selectedResolutionString, alert,
                         showResolutionSelection >>
    /\ UNCHANGED << hasPermission, devices, snapCount, detectedCamerasInfo,
                    selectedDevice, showDeviceList, currentZoom,
                    maxPhotoResolutionForDevice,
                    depsDiscovery, depsSelected, probe, result,
                    catalog, pendingTakePhoto, processPhotoTarget >>

\* the devices a press in the device list can pass, and a missing one
SelectableDevices ==
    { detectedCamerasInfo[i].device : i \in 1..Len(detectedCamerasInfo) } \cup { Null }

Next ==
    \/ PermissionGranted
    \/ DevicesChanged
    \/ DiscoveryEffect
    \/ SelectedDeviceEffect
    \/ \E deviceToSelect \in SelectableDevices : handleCameraSelect(deviceToSelect)
    \/ toggleDeviceList
    \/ toggleResolutionSelection
    \/ toggleCameraPosition
    \/ \E resolutionString \in ResolutionInputs, ratioKey \in RatioKeyInputs :
         handleResolutionSelect(resolutionString, ratioKey)

Spec == Init /\ [][Next]_vars

\* The state machine with the capture: onPressTakePhoto and the two ways its
\* takePhoto promise settles.  One call is in flight at a time.

\* the Camera element is rendered, so the ref camera.current is set
CameraMounted ==
    /\ hasPermission
    /\ selectedDevice \notin { Null, Undefined }
    /\ currentCameraFormat # Undefined
    /\ ~showDeviceList
    /\ ~showResolutionSelection

\* src/App.tsx:1527-1538: the call up to the await of camera.current.takePhoto; the
\* callback is the one of the last render, so it holds selectedResolutionString as
\* it is now
onPressTakePhoto ==
    /\ EffectsSettled
    /\ pendingTakePhoto = Null
    /\ IF ~CameraMounted
       THEN /\ alert' = "Error: Camera is not ready!"
            /\ UNCHANGED pendingTakePhoto
       ELSE /\ pendingTakePhoto' =
                   [ selectedResolutionString |-> selectedResolutionString,
                     photo |-> [ width |-> currentCameraFormat.photoWidth,
                                 height |-> currentCameraFormat.photoHeight ] ]
            /\ UNCHANGED alert
    /\ UNCHANGED << hasPermission, devices, snapCount, detectedCamerasInfo,
                    selectedDevice, showDeviceList, showResolutionSelection,
                    currentCameraFormat, currentZoom, selectedResolutionString,
                    maxPhotoResolutionForDevice, depsDiscovery, depsSelected,
                    probe, result, catalog, processPhotoTarget >>

\* the last alert of processPhoto, src/App.tsx:1340-1364
processPhotoAlert(photo, targetResolution) ==
    IF photo.width < targetResolution.width \/ photo.height < targetResolution.height
    THEN "Processing Warning"
    ELSE "Processing Complete (Simulated)"

\* src/App.tsx:1540-1548: the promise of takePhoto resolves; the continuation reads
\* the selectedResolutionString of the callback that was called
takePhotoResolved ==
    /\ EffectsSettled
    /\ pendingTakePhoto # Null
    /\ pendingTakePhoto' = Null
    /\ IF pendingTakePhoto.selectedResolutionString # Null
       THEN LET targetResolution ==
                    parseResolutionString(pendingTakePhoto.selectedResolutionString)
            IN  /\ processPhotoTarget' = targetResolution
                /\ alert' = processPhotoAlert(pendingTakePhoto.photo, targetResolution)
       ELSE /\ processPhotoTarget' = Null
            /\ alert' = "Photo Taken!"
    /\ UNCHANGED << hasPermission, devices, snapCount, detectedCamerasInfo,
                    selectedDevice, showDeviceList, showResolutionSelection,
                    currentCameraFormat, currentZoom, selectedResolutionString,
                    maxPhotoResolutionForDevice, depsDiscovery, depsSelected,
                    probe, result, catalog >>

\* src/App.tsx:1549-1552: the promise of takePhoto rejects
takePhotoRejected ==
    /\ EffectsSettled
    /\ pendingTakePhoto # Null
    /\ pendingTakePhoto' = Null
    /\ alert' = "Error: Failed to take photo"
    /\ UNCHANGED << hasPermission, devices, snapCount, detectedCamerasInfo,
                    selectedDevice, showDeviceList, showResolutionSelection,
                    currentCameraFormat, currentZoom, selectedResolutionString,
                    maxPhotoResolutionForDevice, depsDiscovery, depsSelected,
                    probe, result, catalog, processPhotoTarget >>

NextCapture ==
    \/ Next
    \/ onPressTakePhoto
    \/ takePhotoResolved
    \/ takePhotoRejected

SpecCapture == Init /\ [][NextCapture]_vars

\* The state machine on snapshots that hold a device without any format: a back
\* dual wide camera with an empty format list and the front camera of DeviceModels.
NoFormatsModels ==
    { Device("dev:0", "Back Camera", "back", { WideTag, UltraTag }, << >>, 1, 2),
      Device("TrueDepth:1", "Front Camera", "front", { WideTag },
             << Photo4K, Photo12MP >>, 1, 1) }

SnapshotsNoFormats ==
    { s \in SeqsUpTo(NoFormatsModels, MaxDevices) :
        \A i, j \in 1..Len(s) : i # j => s[i] # s[j] }

\* the discovery collaborator delivers one of these snapshots
DevicesChangedNoFormats ==
    /\ EffectsSettled
    /\ snapCount < MaxSnapshots
    /\ \E snapshot \in SnapshotsNoFormats :
         devices' = Delivered(snapshot, snapCount + 1)
    /\ snapCount' = snapCount + 1
    /\ UNCHANGED << hasPermission, detectedCamerasInfo, selectedDevice,
                    showDeviceList, showResolutionSelection, currentCameraFormat,
                    currentZoom, selectedResolutionString, maxPhotoResolutionForDevice,
                    alert, depsDiscovery, depsSelected, probe, result,
                    catalog, pendingTakePhoto, processPhotoTarget >>

NextNoFormats ==
    \/ PermissionGranted
    \/ DevicesChangedNoFormats
    \/ DiscoveryEffect
    \/ SelectedDeviceEffect
    \/ \E deviceToSelect \in SelectableDevices : handleCameraSelect(deviceToSelect)
    \/ toggleDeviceList
    \/ toggleResolutionSelection
    \/ toggleCameraPosition
    \/ \E resolutionString \in ResolutionInputs, ratioKey \in RatioKeyInputs :
         handleResolutionSelect(resolutionString, ratioKey)

SpecNoFormats == Init /\ [][NextNoFormats]_vars

----------------------------------------------------------------------------
(* Specifications that apply one function to every input of a bounded set.  *)
(* The state machine stays idle; probe is the input and result becomes      *)
(* [value |-> the output].                                                  *)

LensTags == { WideTag, UltraTag, TeleTag }

NotApplied == [notApplied |-> TRUE]

MachineAside ==
    /\ hasPermission = FALSE
    /\ IdleMachine

\* classify: every facing, tag set, and name and id with and without the marker
ClassifierInputs ==
    { Device(id, name, position, tags, << >>, 1, 1) :
        id \in { "dev:0", "TrueDepth:1" }, name \in { "Back Camera", "TrueDepth Camera" },
        position \in { "front", "back" }, tags \in SUBSET LensTags }

InitClassifier ==
    /\ MachineAside
    /\ probe \in ClassifierInputs
    /\ result = NotApplied

Classify ==
    /\ result = NotApplied
    /\ result' = [value |-> deviceName(probe)]
    /\ UNCHANGED << machineVars, probe >>

SpecClassifier == InitClassifier /\ [][Classify]_vars

\* the zoom rule of the first and of the last variant of the selectedDevice effect
ZoomInputs ==
    { [ variant |-> v, device |-> Device("dev:0", "Back Camera", position, tags, << >>,
                                         minZoom, neutralZoom) ] :
        v \in { "first", "last" }, position \in { "front", "back" },
        tags \in SUBSET LensTags, minZoom \in { 0, 1 }, neutralZoom \in { 0, 1, 2 } }

InitZoom ==
    /\ MachineAside
    /\ probe \in ZoomInputs
    /\ result = NotApplied

DeriveZoom ==
    /\ result = NotApplied
    /\ result' = [value |-> IF probe.variant = "first"
                             THEN defaultZoomMinPolicy(probe.device)
                             ELSE defaultZoom(probe.device)]
    /\ UNCHANGED << machineVars, probe >>

SpecZoom == InitZoom /\ [][DeriveZoom]_vars

\* the scorer on devices of up to MaxFormats formats
\* Photo12MP and Photo12MP4K have the same photo dimensions: equal totals
ScorerFormats == { Photo12MP, Photo12MP4K, Photo4K, Photo720, VideoOnly }

ScorerTargets ==
    { ResolutionString(1280, 720), ResolutionString(1920, 1080),
      ResolutionString(3024, 4032) }

ScorerInputs ==
    { [ device |-> Device("dev:0", "Back Camera", "back", tags, formats, 1, 1),
        resolutionString |-> res ] :
        tags \in { { WideTag }, { WideTag, UltraTag } },
        formats \in SeqsUpTo(ScorerFormats, MaxFormats),
        res \in ScorerTargets }

InitScorer ==
    /\ MachineAside
    /\ probe \in ScorerInputs
    /\ result = NotApplied

Score ==
    /\ result = NotApplied
    /\ result' = [value |-> findBestFormatForResolution(
                                 probe.device,
                                 parseResolutionString(probe.resolutionString),
                                 "16x9 Landscape (16:9)")]
    /\ UNCHANGED << machineVars, probe >>

SpecScorer == InitScorer /\ [][Score]_vars

\* classification and de-duplication of one snapshot of up to MaxListed devices:
\* two ids, and two tag sets that give two labels
MaxListed == 3

DedupDevices ==
    { Device(id, "Back Camera", "back", tags, << Photo720 >>, 1, 1) :
        id \in { "dev:0", "dev:1" }, tags \in { { WideTag }, { TeleTag } } }

DedupInputs ==
    { Delivered(s, 1) : s \in SeqsUpTo(DedupDevices, MaxListed) \ { << >> } }

InitDedup ==
    /\ MachineAside
    /\ probe \in DedupInputs
    /\ result = NotApplied

\* the body of the discovery effect up to setDetectedCamerasInfo
ClassifySnapshot ==
    /\ result = NotApplied
    /\ result' =
         [value |->
            LET sorted == [ i \in 1..Len(probe) |-> sortFormatsInPlace(probe[i]) ]
                foundCameras == [ i \in 1..Len(sorted) |-> cameraInfo(sorted[i]) ]
            IN  uniqueCameraInfo(foundCameras, {})]
    /\ UNCHANGED << machineVars, probe >>

SpecDedup == InitDedup /\ [][ClassifySnapshot]_vars

\* the three variants of the capability filter on devices of up to MaxFormats
\* formats, no device, the five labels of the catalog and a label it does not hold
Photo1440 == Format(2560, 1440, 2560, 1440, 30, 70)

FilterFormats == { Photo12MP, Photo720, Photo1440, VideoOnly }

FilterLabels == DOMAIN predefinedResolutionsByRatio \cup { "21x9 Cinema (21:9)" }

FilterInputs ==
    { [ mode |-> mode, device |-> device, ratioKey |-> ratioKey ] :
        mode \in { "video-exact", "video-exact under ceiling", "bounding" },
        device \in { Device("dev:0", "Back Camera", "back", { WideTag }, formats, 1, 1) :
                       formats \in SeqsUpTo(FilterFormats, MaxFormats) } \cup { Null },
        ratioKey \in FilterLabels }

InitFilter ==
    /\ MachineAside
    /\ probe \in FilterInputs
    /\ result = NotApplied

\* one call of the filter of the variant; the last variant reads the state that the
\* selectedDevice effect derived from the device
FilterResolutions ==
    /\ result = NotApplied
    /\ result' =
         [value |->
            CASE probe.mode = "video-exact" ->
                   getSupportedResolutionsForRatio(probe.device, probe.ratioKey)
              [] probe.mode = "video-exact under ceiling" ->
                   getSupportedResolutionsForRatioCeiling(probe.device, probe.ratioKey)
              [] probe.mode = "bounding" ->
                   getAvailableResolutionsForRatio(maxPhotoResolution(probe.device),
                                                   probe.ratioKey)]
    /\ UNCHANGED << machineVars, probe >>

SpecFilter == InitFilter /\ [][FilterResolutions]_vars

\* the field-of-view multiplier on every set of lens tags, both facings and fields
\* of view around the two limits
FovInputs ==
    { [ device |-> Device("dev:0", "Back Camera", position, tags, << >>, 1, 1),
        format |-> Format(1920, 1080, 4032, 3024, 30, fov) ] :
        position \in { "front", "back" }, tags \in SUBSET LensTags,
        fov \in { 30, 64, 65, 66, 80, 94, 95, 96, 120 } }

InitFov ==
    /\ MachineAside
    /\ probe \in FovInputs
    /\ result = NotApplied

MultiplyFov ==
    /\ result = NotApplied
    /\ result' = [value |-> fovScore(probe.device, probe.format)]
    /\ UNCHANGED << machineVars, probe >>

SpecFov == InitFov /\ [][MultiplyFov]_vars

----------------------------------------------------------------------------
(* Properties.                                                              *)

IsSet(x) == x \notin { Null, Undefined }

\* a device record without its object identity
Content(d) == [ d EXCEPT !.snap = 0, !.idx = 0 ]

DeviceIds(devs) == { devs[i].id : i \in 1..Len(devs) }

\* the least index of devs whose device is in the set keep, 0 if there is none
FirstIndex(devs, keep) ==
    IF \E i \in 1..Len(devs) : devs[i] \in keep
    THEN CHOOSE i \in 1..Len(devs) :
           /\ devs[i] \in keep
           /\ \A j \in 1..(i - 1) : devs[j] \notin keep
    ELSE 0

\* the default-device rule, stated on indices: first back wide-angle device, else
\* first front wide-angle device, else the first device
ExpectedDefault(devs) ==
    LET b == FirstIndex(devs, { d \in SeqToSet(devs) :
                                  d.position = "back" /\ WideTag \in d.physicalDevices })
        f == FirstIndex(devs, { d \in SeqToSet(devs) :
                                  d.position = "front" /\ WideTag \in d.physicalDevices })
    IN  IF b # 0 THEN devs[b] ELSE IF f # 0 THEN devs[f] ELSE devs[1]

\* the discovery effect processes a snapshot it has not processed before
ProcessesNewSnapshot ==
    /\ DiscoveryEffect
    /\ hasPermission
    /\ Len(devices) > 0
    /\ depsDiscovery = Unmounted \/ depsDiscovery.devices # snapCount

\* C1: when the discovery effect processes a snapshot that holds no device with the
\* identity of the selected device, the selected device becomes the default device of
\* that snapshot (in particular a device of that snapshot).
C1_VanishedSelectionFallsBack ==
    [][ ( /\ ProcessesNewSnapshot
          /\ IsSet(selectedDevice)
          /\ selectedDevice.id \notin DeviceIds(devices) )
        => selectedDevice' = ExpectedDefault(devices') ]_vars

\* C2: once the effects have settled after an explicit device selection of a device
\* with a format that has photo dimensions, the format is set again (FormatResolved
\* is reached without further input).
C2_SelectionReachesFormatResolved ==
    ( /\ EffectsSettled
      /\ alert = "Select Camera"
      /\ IsSet(selectedDevice)
      /\ \E i \in 1..Len(selectedDevice.formats) : HasPhoto(selectedDevice.formats[i]) )
    => currentCameraFormat # Undefined

\* C3: in every reachable state, a set selectedFormat is an element of the format
\* list of the selected device.
C3_FormatOfSelectedDevice ==
    currentCameraFormat # Undefined
    => /\ IsSet(selectedDevice)
       /\ currentCameraFormat \in SeqToSet(selectedDevice.formats)

\* C3 witness: after two snapshots and a resolution selection a format is set.
C3_Witness ==
    /\ snapCount = MaxSnapshots
    /\ alert = "Select Resolution"
    /\ currentCameraFormat # Undefined

\* C4: whenever some format of the device has photo width and height both at least
\* the target's, the scorer does not return a format whose photo width and height
\* are both below the target's.
C4_NoUndersizedFormatWhenOneFits ==
    LET target == parseResolutionString(probe.resolutionString)
        formats == probe.device.formats
    IN  ( /\ result # NotApplied
          /\ \E i \in 1..Len(formats) :
               /\ formats[i].photoWidth >= target.width
               /\ formats[i].photoHeight >= target.height )
        => ~( /\ result.value # Undefined
              /\ result.value.photoWidth < target.width
              /\ result.value.photoHeight < target.height )

\* neutralZoom when it is a positive number, 1 otherwise
NeutralOrOne(device) == IF device.neutralZoom > 0 THEN device.neutralZoom ELSE 1

IsBackDualWide(device) ==
    /\ device.position = "back"
    /\ { WideTag, UltraTag } \subseteq device.physicalDevices

\* C5 (as stated): for every device, in every variant, the derived zoom is
\* neutralZoom when it is positive and 1 otherwise.
C5_ZoomIsNeutralZoom ==
    result # NotApplied => result.value = NeutralOrOne(probe.device)

\* C5 (amended): the last variant derives neutralZoom when it is positive and 1
\* otherwise for every device; the first variant does so for every device except a
\* back device tagged wide-angle and ultra-wide-angle, which gets minZoom when it is
\* positive and 1 otherwise.
C5_ZoomPolicyPerVariant ==
    result # NotApplied
    => result.value =
         IF probe.variant = "first" /\ IsBackDualWide(probe.device)
         THEN IF probe.device.minZoom > 0 THEN probe.device.minZoom ELSE 1
         ELSE NeutralOrOne(probe.device)

\* C5 witness: the first variant gave a back dual wide camera its minZoom, which is
\* not its neutralZoom.
C5_Witness ==
    /\ result # NotApplied
    /\ probe.variant = "first"
    /\ IsBackDualWide(probe.device)
    /\ probe.device.neutralZoom = 2
    /\ result.value = 1

\* the index of the first device of devs with the given id
IndexOfId(devs, id) == FirstIndex(devs, { d \in SeqToSet(devs) : d.id = id })

\* C6: when the discovery effect processes a snapshot that still holds a device with
\* the identity of the selected device, the selected device becomes the record of
\* that identity in the new snapshot.
C6_PersistingSelectionRederived ==
    [][ ( /\ ProcessesNewSnapshot
          /\ IsSet(selectedDevice)
          /\ selectedDevice.id \in DeviceIds(devices) )
        => /\ IsSet(selectedDevice')
           /\ Content(selectedDevice') =
                Content(devices'[IndexOfId(devices', selectedDevice.id)]) ]_vars

\* C7: a position toggle selects the first device of the snapshot whose facing
\* differs from the selected device's; if there is none, selectedDevice,
\* selectedFormat, selectedZoom and selectedResolutionString are unchanged and
\* 'No Camera Found' is signaled.
C7_ToggleSelectsFirstCounterpart ==
    [][ ( toggleCameraPosition /\ IsSet(selectedDevice) )
        => LET i == FirstIndex(devices, { d \in SeqToSet(devices) :
                                            d.position # selectedDevice.position })
           IN  IF i # 0
               THEN selectedDevice' = devices[i]
               ELSE /\ UNCHANGED << selectedDevice, currentCameraFormat, currentZoom,
                                    selectedResolutionString >>
                    /\ alert' = "No Camera Found" ]_vars

\* C7 witness: a toggle found no counterpart while a device and a format were selected.
C7_Witness ==
    /\ alert = "No Camera Found"
    /\ IsSet(selectedDevice)
    /\ currentCameraFormat # Undefined
    /\ \A i \in 1..Len(devices) : devices[i].position = selectedDevice.position

\* C8: a resolution selection with a selected device sets selectedFormat to the
\* scorer's format and selectedResolutionString to the requested string; when the
\* scorer returns none, selectedDevice, selectedFormat, selectedZoom and
\* selectedResolutionString are unchanged and the error is signaled.
C8_ResolutionSelectAppliesScorer ==
    [][ \A resolutionString \in ResolutionInputs, ratioKey \in RatioKeyInputs :
          ( handleResolutionSelect(resolutionString, ratioKey) /\ IsSet(selectedDevice) )
          => LET best == findBestFormatForResolution(
                             selectedDevice, parseResolutionString(resolutionString),
                             ratioKey)
             IN  IF best # Undefined
                 THEN /\ currentCameraFormat' = best
                      /\ selectedResolutionString' = resolutionString
                      /\ UNCHANGED << selectedDevice, currentZoom >>
                 ELSE /\ UNCHANGED << selectedDevice, currentCameraFormat, currentZoom,
                                      selectedResolutionString >>
                      /\ alert' = "Error: Could not find a suitable format for the selected resolution." ]_vars

\* C8 witness: the scorer found no format for the selected device and the error was
\* signaled.
C8_Witness ==
    /\ alert = "Error: Could not find a suitable format for the selected resolution."
    /\ IsSet(selectedDevice)
    /\ selectedResolutionString = Null

NineLabels ==
    { "Front Ultra Wide Camera", "Front TrueDepth Camera", "Front Camera",
      "Back Triple Camera", "Back Dual Wide Camera", "Back Dual Camera",
      "Back Telephoto Camera", "Back Ultra Wide Camera", "Back Camera" }

\* C10: for every facing, every set of lens tags and a name and an id with or without
\* the depth-sensing marker, classify returns one of the nine labels.
C10_ClassifyTotal ==
    result # NotApplied => result.value \in NineLabels

\* C10 witness: a back device without any lens tag was classified 'Back Camera'.
C10_Witness ==
    /\ result # NotApplied
    /\ probe.position = "back"
    /\ probe.physicalDevices = {}
    /\ result.value = "Back Camera"

\* C11: classify applies its rules in order, the first matching rule wins: a front
\* device with the ultra-wide tag is 'Front Ultra Wide Camera' also when its name or
\* id carries the depth-sensing marker; a back device with all three tags is 'Back
\* Triple Camera'; a back device with ultra-wide and wide but no telephoto is 'Back
\* Dual Wide Camera'; a back device with wide and telephoto but no ultra-wide is
\* 'Back Dual Camera'.
C11_FirstMatchingRuleWins ==
    result # NotApplied
    => LET tags == probe.physicalDevices
       IN  /\ ( probe.position = "front" /\ UltraTag \in tags )
              => result.value = "Front Ultra Wide Camera"
           /\ ( probe.position = "back" /\ tags = { UltraTag, WideTag, TeleTag } )
              => result.value = "Back Triple Camera"
           /\ ( probe.position = "back" /\ tags = { UltraTag, WideTag } )
              => result.value = "Back Dual Wide Camera"
           /\ ( probe.position = "back" /\ tags = { WideTag, TeleTag } )
              => result.value = "Back Dual Camera"

\* C11 witness: a front device whose name and id both carry the marker and which has
\* the ultra-wide tag was classified 'Front Ultra Wide Camera'.
C11_Witness ==
    /\ result # NotApplied
    /\ probe.position = "front"
    /\ UltraTag \in probe.physicalDevices
    /\ IncludesTrueDepth(probe.name)
    /\ IncludesTrueDepth(probe.id)
    /\ result.value = "Front Ultra Wide Camera"

\* C12: for a back device, 'Back Telephoto Camera' is returned exactly when telephoto
\* is its only lens tag, 'Back Ultra Wide Camera' exactly when ultra-wide is its only
\* lens tag, and every other tag set that the triple and dual rules do not match is
\* 'Back Camera'.
C12_SingleLensLabels ==
    ( result # NotApplied /\ probe.position = "back" )
    => LET tags == probe.physicalDevices
           matchedByTripleOrDual ==
               \/ { UltraTag, WideTag } \subseteq tags
               \/ { WideTag, TeleTag } \subseteq tags
       IN  /\ result.value = "Back Telephoto Camera" <=> tags = { TeleTag }
           /\ result.value = "Back Ultra Wide Camera" <=> tags = { UltraTag }
           /\ ( ~matchedByTripleOrDual /\ tags \notin { { TeleTag }, { UltraTag } } )
              => result.value = "Back Camera"

\* C13: after a snapshot is processed, the classified list holds exactly one entry
\* per device identity of the snapshot; the entry is the first occurrence of that
\* identity in the snapshot, with that occurrence's label; the entries are in
\* snapshot order (so two devices with one label and two identities are both kept).
C13_FirstOccurrencePerIdentity ==
    result # NotApplied
    => LET list == result.value
           firstOf(k) == IndexOfId(probe, list[k].device.id)
       IN  /\ \A k, l \in 1..Len(list) :
                 k # l => list[k].device.id # list[l].device.id
           /\ { list[k].device.id : k \in 1..Len(list) } = DeviceIds(probe)
           /\ \A k \in 1..Len(list) :
                 /\ Ref(list[k].device) = Ref(probe[firstOf(k)])
                 /\ list[k].name = deviceName(probe[firstOf(k)])
           /\ \A k, l \in 1..Len(list) : k < l => firstOf(k) < firstOf(l)

\* C13 witness: of three devices, the first and the second have one label and two
\* identities and both are kept; the third repeats the identity of the first with
\* another label and is dropped.
C13_Witness ==
    /\ result # NotApplied
    /\ Len(probe) = 3
    /\ probe[1].id = probe[3].id
    /\ probe[1].id # probe[2].id
    /\ deviceName(probe[1]) = deviceName(probe[2])
    /\ deviceName(probe[3]) # deviceName(probe[1])
    /\ Len(result.value) = 2
    /\ result.value[1].name = result.value[2].name

\* s is t with some elements left out (the order of t kept)
RECURSIVE IsSubSeq(_, _)
IsSubSeq(s, t) ==
    IF s = << >> THEN TRUE
    ELSE IF t = << >> THEN FALSE
    ELSE IF Head(s) = Head(t) THEN IsSubSeq(Tail(s), Tail(t))
    ELSE IsSubSeq(s, Tail(t))

\* the catalog sequence a variant reads for a label, empty for an unknown label
CatalogOf(mode, label) ==
    IF label \notin DOMAIN predefinedResolutionsByRatio THEN << >>
    ELSE IF mode = "bounding" THEN predefinedResolutionsByRatio[label]
    ELSE predefinedResolutionsByRatioFirst[label]

\* C14: for every device and label, in every matching mode, the filter returns a
\* sub-sequence of the catalog sequence of the label, in catalog order; filtering
\* the returned sequence again for the same device returns it unchanged; for an
\* unknown label or without a device the result is empty.
C14_SubSequenceAndIdempotent ==
    result # NotApplied
    => /\ IsSubSeq(result.value, CatalogOf(probe.mode, probe.ratioKey))
       /\ ( probe.device = Null
            \/ probe.ratioKey \notin DOMAIN predefinedResolutionsByRatio )
          => result.value = << >>
       /\ ( probe.device # Null /\ result.value # << >> )
          => result.value =
               CASE probe.mode = "video-exact" ->
                      supported(probe.device.formats, result.value)
                 [] probe.mode = "video-exact under ceiling" ->
                      supportedUnderCeiling(probe.device.formats, result.value)
                 [] probe.mode = "bounding" ->
                      available(maxPhotoResolution(probe.device), result.value)

\* C14 witness: the bounding filter kept some entries of a label and dropped others.
C14_Witness ==
    /\ result # NotApplied
    /\ probe.mode = "bounding"
    /\ probe.device # Null
    /\ Len(result.value) > 1
    /\ Len(result.value) < Len(CatalogOf(probe.mode, probe.ratioKey))

\* C15: in video-exact mode an entry WxH of the label is returned if and only if
\* some format of the device has videoWidth = W and videoHeight = H; for the label
\* '16x9 Landscape (16:9)' and a device whose formats are video 1920x1080 and video
\* 1280x720 the result is 1280x720, 1920x1080.
C15_VideoExactMatch ==
    ( /\ result # NotApplied
      /\ probe.mode = "video-exact"
      /\ probe.device # Null
      /\ probe.ratioKey \in DOMAIN predefinedResolutionsByRatio )
    => LET formats == probe.device.formats
           videoSizes == { << formats[i].videoWidth, formats[i].videoHeight >> :
                             i \in 1..Len(formats) }
       IN  /\ \A entry \in SeqToSet(CatalogOf(probe.mode, probe.ratioKey)) :
                 entry \in SeqToSet(result.value)
                 <=> << entry.w, entry.h >> \in videoSizes
           /\ ( /\ probe.ratioKey = "16x9 Landscape (16:9)"
                /\ videoSizes = { << 1920, 1080 >>, << 1280, 720 >> } )
              => result.value = << ResolutionString(1280, 720),
                                   ResolutionString(1920, 1080) >>

\* C15 witness: the device of scenario B (video 1920x1080 listed before video
\* 1280x720) under the 16:9 label.
C15_Witness ==
    /\ result # NotApplied
    /\ probe.mode = "video-exact"
    /\ probe.ratioKey = "16x9 Landscape (16:9)"
    /\ probe.device # Null
    /\ Len(probe.device.formats) = 2
    /\ probe.device.formats[1].videoWidth = 1920
    /\ probe.device.formats[1].videoHeight = 1080
    /\ probe.device.formats[2].videoWidth = 1280
    /\ probe.device.formats[2].videoHeight = 720
    /\ Len(result.value) = 2

\* the bounding filter was applied to a device with a photo format and a known label
BoundingApplied ==
    /\ result # NotApplied
    /\ probe.mode = "bounding"
    /\ probe.device # Null
    /\ probe.ratioKey \in DOMAIN predefinedResolutionsByRatio
    /\ maxPhotoResolution(probe.device) # Null

C17_NothingAboveCeiling ==
    ( result # NotApplied /\ probe.mode = "video-exact under ceiling" )
    => \A entry \in SeqToSet(result.value) : entry.w <= 2160 /\ entry.h <= 2160

\* C17 witness: the device has a video 2560x1440 format, 2560x1440 is an entry of
\* the label, and the filter under the ceiling has answered.
C17_Witness ==
    /\ result # NotApplied
    /\ probe.mode = "video-exact under ceiling"
    /\ probe.device # Null
    /\ probe.ratioKey = "16x9 Landscape (16:9)"
    /\ Photo1440 \in SeqToSet(probe.device.formats)
    /\ ResolutionString(2560, 1440) \in SeqToSet(CatalogOf(probe.mode, probe.ratioKey))
    /\ result.value # << >>

\* the total scores of the device's formats for the target of the probe
ProbeTotals ==
    [ i \in 1..Len(probe.device.formats) |->
        totalScore(probe.device, probe.device.formats[i],
                   parseResolutionString(probe.resolutionString)) ]

\* C18: a format the scorer returns has a total that no format of the device
\* exceeds, and it is the earliest listed format with that total.
C18_GreatestTotalEarliestWins ==
    ( result # NotApplied /\ result.value # Undefined )
    => LET totals == ProbeTotals
           scored == { i \in DOMAIN totals : totals[i] # NaN }
           greatest == { i \in scored :
                           \A j \in scored : ~RatGreater(totals[j], totals[i]) }
       IN  /\ greatest # {}
           /\ result.value =
                probe.device.formats[CHOOSE i \in greatest : \A j \in greatest : i <= j]

\* C18 witness: two different formats with equal totals, listed after a format with
\* a smaller total; the first of the two was returned.
C18_Witness ==
    /\ result # NotApplied
    /\ Len(probe.device.formats) = 3
    /\ probe.device.formats[2] # probe.device.formats[3]
    /\ ProbeTotals[2] = ProbeTotals[3]
    /\ RatGreater(ProbeTotals[2], ProbeTotals[1])
    /\ result.value = probe.device.formats[2]

\* C19: the scorer returns none if and only if no format of the device has photo
\* dimensions, and a format it returns has photo dimensions.
C19_NoneIffNoPhotoFormat ==
    result # NotApplied
    => /\ result.value = Undefined
          <=> \A i \in 1..Len(probe.device.formats) : ~HasPhoto(probe.device.formats[i])
       /\ result.value # Undefined => HasPhoto(result.value)

\* C19 witness: a device whose only formats are without photo dimensions got none.
C19_Witness ==
    /\ result # NotApplied
    /\ Len(probe.device.formats) > 0
    /\ \A i \in 1..Len(probe.device.formats) : ~HasPhoto(probe.device.formats[i])
    /\ result.value = Undefined

\* C20: the field-of-view multiplier is 1.0 for a device with one lens tag; for a
\* device with more than one lens tag (one of them is then not wide-angle; ultra-wide
\* with telephoto and no wide-angle included) it is 1.5 for a field of view in
\* [65, 95] and 0.8 for any other.
C20_FovMultiplierForAnyMultiLens ==
    result # NotApplied
    => LET tags == probe.device.physicalDevices
           fov == probe.format.fieldOfView
       IN  /\ Cardinality(tags) = 1 => result.value = << 1, 1 >>
           /\ Cardinality(tags) > 1
              => result.value = IF 65 <= fov /\ fov <= 95 THEN << 3, 2 >> ELSE << 4, 5 >>

\* C20 (amended): the multiplier is 1.0 for a device with one lens tag or none, and
\* for a device without the wide-angle tag (ultra-wide with telephoto); for a device
\* with the wide-angle tag and at least one other lens tag it is 1.5 for a field of
\* view in [65, 95], limits included, and 0.8 for any other.
C20_FovMultiplierNeedsWide ==
    result # NotApplied
    => LET tags == probe.device.physicalDevices
           fov == probe.format.fieldOfView
       IN  result.value =
             IF WideTag \in tags /\ Cardinality(tags) > 1
             THEN IF 65 <= fov /\ fov <= 95 THEN << 3, 2 >> ELSE << 4, 5 >>
             ELSE << 1, 1 >>

\* C20 witness: a device tagged ultra-wide and telephoto, without wide-angle, and a
\* format with a field of view of 80 degrees: the multiplier is 1.0.
C20_Witness ==
    /\ result # NotApplied
    /\ probe.device.physicalDevices = { UltraTag, TeleTag }
    /\ probe.format.fieldOfView = 80
    /\ result.value = << 1, 1 >>

\* the device of scenario C: a single lens, and the two formats photo 4032x3024
\* (field of view 70) and photo 3840x2160 (field of view 80), in either order
ScenarioC ==
    /\ result # NotApplied
    /\ probe.resolutionString = ResolutionString(1920, 1080)
    /\ Cardinality(probe.device.physicalDevices) = 1
    /\ Len(probe.device.formats) = 2
    /\ SeqToSet(probe.device.formats) = { Photo12MP, Photo4K }

\* C21: for the target 1920x1080 and the device of scenario C the scorer returns the
\* photo 3840x2160 format, whichever of the two formats is listed first.
C21_ScenarioC ==
    ScenarioC
    => /\ result.value # Undefined
       /\ result.value.photoWidth = 3840
       /\ result.value.photoHeight = 2160

\* C21 witness: the device of scenario C with the 4032x3024 format listed first.
C21_Witness ==
    /\ ScenarioC
    /\ probe.device.formats[1].photoWidth = 4032
    /\ result.value = probe.device.formats[2]

FiveLabels ==
    { "Square (1:1)", "4x3 Landscape (4:3)", "3x4 Portrait (3:4)",
      "16x9 Landscape (16:9)", "9x16 Portrait (9:16)" }

\* C22: for each of the five labels the catalog sequence is strictly ascending by
\* width and then by height and holds no entry twice, and in every reachable state
\* the catalog is the catalog of the initial state.
C22_CatalogSortedAndFixed ==
    /\ DOMAIN catalog = FiveLabels
    /\ \A label \in FiveLabels :
         LET list == catalog[label]
         IN  /\ \A i \in 1..(Len(list) - 1) :
                   \/ list[i].w < list[i + 1].w
                   \/ list[i].w = list[i + 1].w /\ list[i].h < list[i + 1].h
             /\ \A i, j \in 1..Len(list) : i # j => list[i] # list[j]
             /\ Len(list) > 0
    /\ catalog = predefinedResolutionsByRatio

\* C22 witness: two snapshots were delivered, a resolution was selected and the
\* resolution picker is open.
C22_Witness ==
    /\ snapCount = MaxSnapshots
    /\ IsSet(selectedDevice)
    /\ selectedResolutionString \in ResolutionInputs
    /\ showResolutionSelection
    /\ alert = "Select Resolution"

\* C23: a step that starts with no selected device and ends with an empty snapshot
\* (its delivery, the discovery effect that processes it, anything after it) leaves
\* selectedDevice as it is and unset, the format unset and the classified list empty.
C23_EmptySnapshotStaysIdle ==
    [][ ( ~IsSet(selectedDevice) /\ devices' = << >> )
        => /\ selectedDevice' = selectedDevice
           /\ currentCameraFormat' = Undefined
           /\ detectedCamerasInfo' = << >> ]_vars

\* C23 witness: the permission is granted, an empty snapshot was delivered and the
\* discovery effect has run on it; no device is selected.
C23_Witness ==
    /\ hasPermission
    /\ snapCount > 0
    /\ devices = << >>
    /\ depsDiscovery # Unmounted
    /\ depsDiscovery.devices = snapCount
    /\ depsDiscovery.hasPermission
    /\ EffectsSettled
    /\ ~IsSet(selectedDevice)

\* C24: while the selected device has an empty format list the format is unset, and
\* once the effects have run the zoom is the one the zoom rule derives from that
\* device (its neutralZoom when positive, 1 otherwise).
C24_NoFormatButZoom ==
    ( IsSet(selectedDevice) /\ selectedDevice.formats = << >> )
    => /\ currentCameraFormat = Undefined
       /\ EffectsSettled => currentZoom = NeutralOrOne(selectedDevice)

\* C24 witness: a device with an empty format list and neutralZoom 2 is selected,
\* the effects have run, the zoom is 2, and a resolution selection has failed.
C24_Witness ==
    /\ IsSet(selectedDevice)
    /\ selectedDevice.formats = << >>
    /\ selectedDevice.neutralZoom = 2
    /\ EffectsSettled
    /\ currentZoom = 2
    /\ alert = "Error: Could not find a suitable format for the selected resolution."

\* C25: when a capture completes, the target resolution handed to post-processing
\* is the one selectedResolutionString gives at that moment (none if it is unset),
\* also when the selection changed while the capture was in flight.
C25_CaptureUsesCurrentResolution ==
    [][ takePhotoResolved
        => processPhotoTarget' =
             IF selectedResolutionString = Null THEN Null
             ELSE parseResolutionString(selectedResolutionString) ]_vars

\* C26: an explicit device selection with a device replaces selectedDevice by that
\* device and clears the format and the resolution string in the same step; a
\* selection with no device changes no selection field and signals an error.
C26_DeviceSelectionStep ==
    [][ \A deviceToSelect \in SelectableDevices :
          handleCameraSelect(deviceToSelect)
          => IF deviceToSelect # Null
             THEN /\ selectedDevice' = deviceToSelect
                  /\ currentCameraFormat' = Undefined
                  /\ selectedResolutionString' = Null
             ELSE /\ UNCHANGED << selectedDevice, currentCameraFormat,
                                  selectedResolutionString >>
                  /\ alert' = "Error: Selected camera not found." ]_vars

\* a device selection has just replaced a device whose format and resolution
\* string were resolved: the effect of the new device has not run yet
C26_Witness ==
    /\ alert = "Select Camera"
    /\ IsSet(selectedDevice)
    /\ SelectedPending
    /\ currentCameraFormat = Undefined
    /\ selectedResolutionString = Null
    /\ maxPhotoResolutionForDevice # Null

\* C27: no operation changes a device's format list: in every step other than the
\* delivery of a snapshot, the sequence of formats of every device of the snapshot
\* (its elements and their order) stays as it was delivered.
C27_FormatListsUntouched ==
    [][ snapCount' = snapCount
        => /\ Len(devices') = Len(devices)
           /\ \A i \in 1..Len(devices) : devices'[i].formats = devices[i].formats ]_vars

\* C28: every resolution the bounding-mode filter offers for a device is realizable:
\* for each offered WxH the device has at least one format with photoWidth >= W
\* and photoHeight >= H.
C28_OfferedIsRealizable ==
    BoundingApplied
    => \A entry \in SeqToSet(result.value) :
         \E format \in SeqToSet(probe.device.formats) :
           format.photoWidth >= entry.w /\ format.photoHeight >= entry.h

\* C29: once a device is selected, selectedDevice is never unset again: no discovery
\* event (an empty snapshot included), device selection, position toggle or
\* resolution selection takes the machine back to a state without a selected device.
C29_SelectedDeviceStaysSet ==
    [][ IsSet(selectedDevice) => IsSet(selectedDevice') ]_vars

\* C29 witness: a device was selected, then an empty snapshot was delivered and its
\* effects have run, and the position toggle found no counterpart: the device of
\* the earlier snapshot is still selected.
C29_Witness ==
    /\ IsSet(selectedDevice)
    /\ snapCount > selectedDevice.snap
    /\ devices = << >>
    /\ EffectsSettled
    /\ alert = "No Camera Found"

\* C30: in every reachable state the device list and the resolution picker are not
\* both open.
C30_ListAndPickerExclusive ==
    ~( showDeviceList /\ showResolutionSelection )

\* C30 witness: the resolution picker is open over a selected device with a resolved
\* format, and the device list is closed.
C30_Witness ==
    /\ showResolutionSelection
    /\ ~showDeviceList
    /\ IsSet(selectedDevice)
    /\ IsSet(currentCameraFormat)
    /\ EffectsSettled

====
